---- MODULE Spec2Model ----
(***************************************************************************)
(* aicommits: the configuration store (src/utils/config.ts: parsers,       *)
(* readConfigFile, getConfig, setConfigs) and the completion client        *)
(* (httpsPost, createChatCompletion, sanitizeMessage, deduplicateMessages, *)
(* generateCommitMessage).                                                 *)
(*                                                                         *)
(* JavaScript strings are sequences of one-character strings, so that the  *)
(* regular expressions, the trimming and the INI quoting of the code are   *)
(* computed character by character.  JavaScript values are tagged records. *)
(***************************************************************************)
EXTENDS Integers, Sequences, FiniteSets, TLC

VARIABLES
    fileExists,   \* config store: whether ~/.aicommits exists
    fileLines,    \* config store: key -> the text after "=" on that key's line
    res,          \* config store: the running invocation and its outcome
    procs,        \* race: the two concurrent `config set` processes
    raceLog,      \* race: the order of the reads and writes that happened
    net,          \* client: the request, the response stream and the promise
    gen           \* client: generateCommitMessage's inputs and outcome

vars == <<fileExists, fileLines, res, procs, raceLog, net, gen>>

-----------------------------------------------------------------------------
(* Characters and strings                                                  *)

LowerChars == {"a","b","c","d","e","f","g","h","i","j","k","l","m",
               "n","o","p","q","r","s","t","u","v","w","x","y","z"}
UpperChars == {"A","B","C","D","E","F","G","H","I","J","K","L","M",
               "N","O","P","Q","R","S","T","U","V","W","X","Y","Z"}
DigitChars == <<"0","1","2","3","4","5","6","7","8","9">>
Digits == {DigitChars[i] : i \in 1..10}
\* \w of a JavaScript regular expression
WordChars == LowerChars \cup UpperChars \cup Digits \cup {"_"}
\* what String.prototype.trim removes (of the characters the model uses)
WhiteSpace == {" ", "\t", "\n", "\r"}

LowerPairs == <<"a","b","c","d","e","f","g","h","i","j","k","l","m",
                "n","o","p","q","r","s","t","u","v","w","x","y","z">>
UpperPairs == <<"A","B","C","D","E","F","G","H","I","J","K","L","M",
                "N","O","P","Q","R","S","T","U","V","W","X","Y","Z">>

ToLowerChar(c) ==
    IF c \in UpperChars
    THEN LowerPairs[CHOOSE i \in 1..26 : UpperPairs[i] = c]
    ELSE c

\* String.prototype.toLowerCase
ToLowerCase(s) == [i \in 1..Len(s) |-> ToLowerChar(s[i])]

\* String.prototype.startsWith
StartsWith(s, p) == Len(s) >= Len(p) /\ SubSeq(s, 1, Len(p)) = p

RECURSIVE TrimStart(_)
TrimStart(s) ==
    IF s # <<>> /\ Head(s) \in WhiteSpace THEN TrimStart(Tail(s)) ELSE s

RECURSIVE TrimEnd(_)
TrimEnd(s) ==
    IF s # <<>> /\ s[Len(s)] \in WhiteSpace
    THEN TrimEnd(SubSeq(s, 1, Len(s) - 1))
    ELSE s

\* String.prototype.trim
Trim(s) == TrimEnd(TrimStart(s))

\* /^\d+$/.test(s)
IsDigits(s) == s # <<>> /\ \A i \in 1..Len(s) : s[i] \in Digits

DigitVal(c) == (CHOOSE i \in 1..10 : DigitChars[i] = c) - 1

\* Number(s) of a string of digits
RECURSIVE DigitsToNumber(_)
DigitsToNumber(s) ==
    IF s = <<>> THEN 0
    ELSE 10 * DigitsToNumber(SubSeq(s, 1, Len(s) - 1)) + DigitVal(s[Len(s)])

\* String(n) of a non-negative integer
RECURSIVE NumberToString(_)
NumberToString(n) ==
    IF n < 10 THEN <<DigitChars[n + 1]>>
    ELSE NumberToString(n \div 10) \o <<DigitChars[(n % 10) + 1]>>

\* /^https?:\/\//.test(s)
IsHttpUrl(s) ==
    \/ StartsWith(s, <<"h","t","t","p",":","/","/">>)
    \/ StartsWith(s, <<"h","t","t","p","s",":","/","/">>)

\* /^[a-z-]+$/i.test(s)
IsLocale(s) ==
    s # <<>> /\ \A i \in 1..Len(s) : s[i] \in LowerChars \cup UpperChars \cup {"-"}

-----------------------------------------------------------------------------
(* JavaScript values                                                       *)

Undefined == [t |-> "undefined"]
Null == [t |-> "null"]
Bool(b) == [t |-> "boolean", b |-> b]
Num(n) == [t |-> "number", n |-> n]
Str(s) == [t |-> "string", s |-> s]

\* !v
Falsy(v) ==
    \/ v.t \in {"undefined", "null"}
    \/ v.t = "boolean" /\ ~v.b
    \/ v.t = "string" /\ v.s = <<>>
    \/ v.t = "number" /\ v.n = 0

\* String(v), which is also how RegExp.prototype.test coerces its argument
JsString(v) ==
    CASE v.t = "string" -> v.s
      [] v.t = "number" -> NumberToString(v.n)
      [] v.t = "boolean" -> IF v.b THEN <<"t","r","u","e">> ELSE <<"f","a","l","s","e">>
      [] v.t = "null" -> <<"n","u","l","l">>
      [] OTHER -> <<"u","n","d","e","f","i","n","e","d">>

-----------------------------------------------------------------------------
(* The parsers                                                             *)

NoError == [kind |-> "none", name |-> "", message |-> ""]
\* parseAssert's KnownError: `Invalid config property ${name}: ${message}`
InvalidProperty(name, message) ==
    [kind |-> "InvalidProperty", name |-> name, message |-> message]
\* calling a method the value does not have
TypeError(name) == [kind |-> "TypeError", name |-> name, message |-> ""]

Ok(v) == [ok |-> TRUE, val |-> v, err |-> NoError]
Throw(e) == [ok |-> FALSE, val |-> Undefined, err |-> e]

commitTypes == {<<>>, <<"c","o","n","v","e","n","t","i","o","n","a","l">>}

DefaultModel == <<"g","p","t","-","3",".","5","-","t","u","r","b","o">>
DefaultLocale == <<"e","n">>
DefaultGenerate == 1
MaxGenerate == 5
DefaultTimeout == 10000
MinTimeout == 500
DefaultMaxLength == 50
MinMaxLength == 20

Parse_OPENAI_KEY(key) ==
    IF Falsy(key) THEN Ok(Str(<<>>))
    ELSE IF key.t # "string" THEN Throw(TypeError("OPENAI_KEY"))
    ELSE IF ~StartsWith(key.s, <<"s","k","-">>)
    THEN Throw(InvalidProperty("OPENAI_KEY", "Must start with \"sk-\""))
    ELSE Ok(key)

Parse_locale(locale) ==
    IF Falsy(locale) THEN Ok(Str(DefaultLocale))
    ELSE IF ~IsLocale(JsString(locale))
    THEN Throw(InvalidProperty("locale", "Must be a valid locale"))
    ELSE Ok(locale)

Parse_generate(count) ==
    IF Falsy(count) THEN Ok(Num(DefaultGenerate))
    ELSE IF ~IsDigits(JsString(count))
    THEN Throw(InvalidProperty("generate", "Must be an integer"))
    ELSE LET parsed == DigitsToNumber(JsString(count)) IN
         IF ~(parsed > 0)
         THEN Throw(InvalidProperty("generate", "Must be greater than 0"))
         ELSE IF ~(parsed <= MaxGenerate)
         THEN Throw(InvalidProperty("generate", "Must be less or equal to 5"))
         ELSE Ok(Num(parsed))

Parse_type(type) ==
    IF Falsy(type) THEN Ok(Str(<<>>))
    ELSE IF ~(type.t = "string" /\ type.s \in commitTypes)
    THEN Throw(InvalidProperty("type", "Invalid commit type"))
    ELSE Ok(type)

Parse_proxy(url) ==
    IF Falsy(url) \/ (url.t = "string" /\ Len(url.s) = 0) THEN Ok(Undefined)
    ELSE IF ~IsHttpUrl(JsString(url))
    THEN Throw(InvalidProperty("proxy", "Must be a valid URL"))
    ELSE Ok(url)

Parse_model(model) ==
    IF Falsy(model) \/ (model.t = "string" /\ Len(model.s) = 0)
    THEN Ok(Str(DefaultModel))
    ELSE Ok(model)

\* a wrong default: the lower limit instead of 10_000
Parse_timeout_DefaultIsMinimum(timeout) ==
    IF Falsy(timeout) THEN Ok(Num(MinTimeout))
    ELSE IF ~IsDigits(JsString(timeout))
    THEN Throw(InvalidProperty("timeout", "Must be an integer"))
    ELSE LET parsed == DigitsToNumber(JsString(timeout)) IN
         IF ~(parsed >= MinTimeout)
         THEN Throw(InvalidProperty("timeout", "Must be greater than 500ms"))
         ELSE Ok(Num(parsed))

Parse_timeout(timeout) ==
    IF Falsy(timeout) THEN Ok(Num(DefaultTimeout))
    ELSE IF ~IsDigits(JsString(timeout))
    THEN Throw(InvalidProperty("timeout", "Must be an integer"))
    ELSE LET parsed == DigitsToNumber(JsString(timeout)) IN
         IF ~(parsed >= MinTimeout)
         THEN Throw(InvalidProperty("timeout", "Must be greater than 500ms"))
         ELSE Ok(Num(parsed))

Parse_max_length(maxLength) ==
    IF Falsy(maxLength) THEN Ok(Num(DefaultMaxLength))
    ELSE IF ~IsDigits(JsString(maxLength))
    THEN Throw(InvalidProperty("max-length", "Must be an integer"))
    ELSE LET parsed == DigitsToNumber(JsString(maxLength)) IN
         IF ~(parsed >= MinMaxLength)
         THEN Throw(InvalidProperty("max-length", "Must be greater than 20 characters"))
         ELSE Ok(Num(parsed))

Parse_USE_AZURE(useAzure) ==
    IF useAzure = Undefined THEN Ok(Bool(FALSE))
    ELSE LET normalizedValue == ToLowerCase(JsString(useAzure)) IN
         IF ~(normalizedValue = <<"t","r","u","e">> \/ normalizedValue = <<"f","a","l","s","e">>)
         THEN Throw(InvalidProperty("USE_AZURE", "Must be true or false"))
         ELSE Ok(Bool(normalizedValue = <<"t","r","u","e">>))

Parse_AZURE_OPENAI_KEY(key) ==
    IF Falsy(key) THEN Ok(Str(<<>>))
    \* key.length is undefined on a boolean, and undefined > 0 is false
    ELSE IF ~(key.t = "string" /\ Len(key.s) > 0)
    THEN Throw(InvalidProperty("AZURE_OPENAI_KEY", "Cannot be empty"))
    ELSE Ok(key)

Parse_AZURE_OPENAI_ENDPOINT(endpoint) ==
    IF Falsy(endpoint) THEN Ok(Str(<<>>))
    ELSE IF ~IsHttpUrl(JsString(endpoint))
    THEN Throw(InvalidProperty("AZURE_OPENAI_ENDPOINT", "Must be a valid URL"))
    ELSE Ok(endpoint)

\* Object.keys(combinedParsers): the gateway parsers first, then the others
ParserKeys == <<"USE_AZURE", "AZURE_OPENAI_KEY", "AZURE_OPENAI_ENDPOINT",
                "OPENAI_KEY", "locale", "generate", "type", "proxy", "model",
                "timeout", "max-length">>
RecognizedKeys == {ParserKeys[i] : i \in 1..Len(ParserKeys)}

\* combinedParsers[key](value)
combinedParsers(key, value) ==
    CASE key = "USE_AZURE" -> Parse_USE_AZURE(value)
      [] key = "AZURE_OPENAI_KEY" -> Parse_AZURE_OPENAI_KEY(value)
      [] key = "AZURE_OPENAI_ENDPOINT" -> Parse_AZURE_OPENAI_ENDPOINT(value)
      [] key = "OPENAI_KEY" -> Parse_OPENAI_KEY(value)
      [] key = "locale" -> Parse_locale(value)
      [] key = "generate" -> Parse_generate(value)
      [] key = "type" -> Parse_type(value)
      [] key = "proxy" -> Parse_proxy(value)
      [] key = "model" -> Parse_model(value)
      [] key = "timeout" -> Parse_timeout(value)
      [] key = "max-length" -> Parse_max_length(value)

-----------------------------------------------------------------------------
(* The INI serialization of the file (package ini, used at lines 176, 242).*)
(* A file is modelled by its key=value lines: key -> the text after "=".   *)
(* Sections, arrays, comment lines and the order of the lines are left out.*)

DQ == "\""
SQ == "'"
BS == "\\"

\* ini's isQuoted
IniIsQuoted(s) ==
    /\ s # <<>>
    /\ \/ Head(s) = DQ /\ s[Len(s)] = DQ
       \/ Head(s) = SQ /\ s[Len(s)] = SQ

\* the body of JSON.stringify of a string
RECURSIVE JsonEscape(_)
JsonEscape(s) ==
    IF s = <<>> THEN <<>>
    ELSE LET c == Head(s) IN
         (CASE c = DQ -> <<BS, DQ>>
            [] c = BS -> <<BS, BS>>
            [] c = "\n" -> <<BS, "n">>
            [] c = "\r" -> <<BS, "r">>
            [] c = "\t" -> <<BS, "t">>
            [] OTHER -> <<c>>) \o JsonEscape(Tail(s))

\* JSON.stringify(v); of undefined it is undefined, which `+` prints "undefined"
JsonStringify(v) ==
    IF v.t = "string" THEN <<DQ>> \o JsonEscape(v.s) \o <<DQ>>
    ELSE JsString(v)

\* the body of a JSON string literal: [ok, s]
RECURSIVE JsonUnescape(_)
JsonUnescape(s) ==
    IF s = <<>> THEN [ok |-> TRUE, s |-> <<>>]
    ELSE LET c == Head(s) IN
         IF c \in {DQ, "\n", "\r", "\t"} THEN [ok |-> FALSE, s |-> <<>>]
         ELSE IF c = BS
         THEN IF Len(s) < 2 \/ s[2] \notin {DQ, BS, "/", "n", "r", "t"}
              THEN [ok |-> FALSE, s |-> <<>>]
              ELSE LET d == s[2]
                       rest == JsonUnescape(SubSeq(s, 3, Len(s)))
                       ch == CASE d = "n" -> "\n"
                               [] d = "r" -> "\r"
                               [] d = "t" -> "\t"
                               [] OTHER -> d
                   IN [ok |-> rest.ok, s |-> <<ch>> \o rest.s]
         ELSE LET rest == JsonUnescape(Tail(s))
              IN [ok |-> rest.ok, s |-> <<c>> \o rest.s]

\* JSON.parse(s) of a string literal, an integer or a keyword; anything else
\* the model uses is a syntax error
JsonParse(s) ==
    LET t == Trim(s) IN
    IF Len(t) >= 2 /\ Head(t) = DQ /\ t[Len(t)] = DQ
    THEN LET u == JsonUnescape(SubSeq(t, 2, Len(t) - 1))
         IN [ok |-> u.ok, val |-> Str(u.s)]
    ELSE IF t = <<"t","r","u","e">> THEN [ok |-> TRUE, val |-> Bool(TRUE)]
    ELSE IF t = <<"f","a","l","s","e">> THEN [ok |-> TRUE, val |-> Bool(FALSE)]
    ELSE IF t = <<"n","u","l","l">> THEN [ok |-> TRUE, val |-> Null]
    ELSE IF IsDigits(t) /\ (Len(t) = 1 \/ Head(t) # "0")
    THEN [ok |-> TRUE, val |-> Num(DigitsToNumber(t))]
    ELSE [ok |-> FALSE, val |-> Undefined]

\* val.split(';').join('\;').split('#').join('\\#')
RECURSIVE IniEscape(_)
IniEscape(s) ==
    IF s = <<>> THEN <<>>
    ELSE (IF Head(s) \in {";", "#"} THEN <<BS, Head(s)>> ELSE <<Head(s)>>)
         \o IniEscape(Tail(s))

\* ini's safe(val): the text written after "="
IniSafe(v) ==
    IF \/ v.t # "string"
       \/ \E i \in 1..Len(v.s) : v.s[i] \in {"=", "\r", "\n"}
       \/ (v.s # <<>> /\ Head(v.s) = "[")
       \/ (Len(v.s) > 1 /\ IniIsQuoted(v.s))
       \/ v.s # Trim(v.s)
    THEN JsonStringify(v)
    ELSE IniEscape(v.s)

\* the loop of ini's unsafe over an unquoted value: stops at the first
\* unescaped ; or #
RECURSIVE IniUnescape(_, _)
IniUnescape(s, esc) ==
    IF s = <<>> THEN (IF esc THEN <<BS>> ELSE <<>>)
    ELSE LET c == Head(s) IN
         IF esc
         THEN (IF c \in {BS, ";", "#"} THEN <<c>> ELSE <<BS, c>>)
              \o IniUnescape(Tail(s), FALSE)
         ELSE IF c \in {";", "#"} THEN <<>>
         ELSE IF c = BS THEN IniUnescape(Tail(s), TRUE)
         ELSE <<c>> \o IniUnescape(Tail(s), FALSE)

\* ini's unsafe(val): the value of the text read after "="
IniUnsafe(text) ==
    LET val == Trim(text) IN
    IF IniIsQuoted(val)
    THEN LET inner == IF Head(val) = SQ THEN SubSeq(val, 2, Len(val) - 1) ELSE val
             parsed == JsonParse(inner)
         IN IF parsed.ok THEN parsed.val ELSE Str(inner)
    ELSE Str(Trim(IniUnescape(val, FALSE)))

\* decode's value of one line: true, false and null become the JSON values
IniDecodeValue(text) ==
    LET valueRaw == IniUnsafe(text) IN
    IF valueRaw.t = "string"
       /\ valueRaw.s \in {<<"t","r","u","e">>, <<"f","a","l","s","e">>, <<"n","u","l","l">>}
    THEN JsonParse(valueRaw.s).val
    ELSE valueRaw

\* ini.parse(configString)
IniParse(lines) == [k \in DOMAIN lines |-> IniDecodeValue(lines[k])]

\* ini.stringify(config)
IniStringify(config) == [k \in DOMAIN config |-> IniSafe(config[k])]

EmptyObject == [k \in {} |-> Undefined]

\* readConfigFile
readConfigFile(exists, lines) ==
    IF ~exists THEN EmptyObject ELSE IniParse(lines)

-----------------------------------------------------------------------------
(* getConfig and setConfigs                                                *)

\* object[key], undefined for a key the object does not have
Lookup(object, key) == IF key \in DOMAIN object THEN object[key] ELSE Undefined

\* a ?? b
Coalesce(a, b) == IF a.t \in {"undefined", "null"} THEN b ELSE a

\* object[key] = value
Assign(object, key, value) ==
    [k \in DOMAIN object \cup {key} |-> IF k = key THEN value ELSE object[k]]

MissingCredential(name) ==
    [kind |-> "MissingCredential", name |-> name, message |-> "Please set"]

\* a suppressed failure replaced by the key's default instead of being left out
RECURSIVE ParseLoop_DefaultsOnFailure(_, _, _, _, _)
ParseLoop_DefaultsOnFailure(i, config, cliConfig, suppressErrors, parsedConfig) ==
    IF i > Len(ParserKeys) THEN [ok |-> TRUE, err |-> NoError, config |-> parsedConfig]
    ELSE LET key == ParserKeys[i]
             value == Coalesce(Lookup(cliConfig, key), Lookup(config, key))
             r == combinedParsers(key, value)
         IN IF r.ok
            THEN ParseLoop_DefaultsOnFailure(i + 1, config, cliConfig, suppressErrors,
                                             Assign(parsedConfig, key, r.val))
            ELSE IF suppressErrors
            THEN ParseLoop_DefaultsOnFailure(i + 1, config, cliConfig, suppressErrors,
                     Assign(parsedConfig, key, combinedParsers(key, Undefined).val))
            ELSE [ok |-> FALSE, err |-> r.err, config |-> EmptyObject]

\* lines 186-197: the loop over Object.keys(combinedParsers), from key i on
RECURSIVE ParseLoop(_, _, _, _, _)
ParseLoop(i, config, cliConfig, suppressErrors, parsedConfig) ==
    IF i > Len(ParserKeys) THEN [ok |-> TRUE, err |-> NoError, config |-> parsedConfig]
    ELSE LET key == ParserKeys[i]
             value == Coalesce(Lookup(cliConfig, key), Lookup(config, key))
             r == combinedParsers(key, value)
         IN IF r.ok
            THEN ParseLoop(i + 1, config, cliConfig, suppressErrors,
                           Assign(parsedConfig, key, r.val))
            ELSE IF suppressErrors
            THEN ParseLoop(i + 1, config, cliConfig, suppressErrors, parsedConfig)
            ELSE [ok |-> FALSE, err |-> r.err, config |-> EmptyObject]

\* the gateway endpoint left unchecked
CredentialCheck_NoEndpointCheck(parsedConfig, suppressErrors) ==
    LET openaiKey == Lookup(parsedConfig, "OPENAI_KEY")
        useAzure == Lookup(parsedConfig, "USE_AZURE")
        azureOpenaiKey == Lookup(parsedConfig, "AZURE_OPENAI_KEY")
    IN IF openaiKey = Str(<<>>) /\ Falsy(useAzure) /\ ~suppressErrors
       THEN MissingCredential("OPENAI_KEY")
       ELSE IF ~Falsy(useAzure) /\ ~suppressErrors /\ azureOpenaiKey = Str(<<>>)
       THEN MissingCredential("AZURE_OPENAI_KEY")
       ELSE NoError

\* lines 199-225: the credential rule; NoError when nothing is thrown
CredentialCheck(parsedConfig, suppressErrors) ==
    LET openaiKey == Lookup(parsedConfig, "OPENAI_KEY")
        useAzure == Lookup(parsedConfig, "USE_AZURE")
        azureOpenaiKey == Lookup(parsedConfig, "AZURE_OPENAI_KEY")
        azureOpenaiEndpoint == Lookup(parsedConfig, "AZURE_OPENAI_ENDPOINT")
    IN IF openaiKey = Str(<<>>) /\ Falsy(useAzure) /\ ~suppressErrors
       THEN MissingCredential("OPENAI_KEY")
       ELSE IF ~Falsy(useAzure) /\ ~suppressErrors /\ azureOpenaiKey = Str(<<>>)
       THEN MissingCredential("AZURE_OPENAI_KEY")
       ELSE IF ~Falsy(useAzure) /\ ~suppressErrors /\ azureOpenaiEndpoint = Str(<<>>)
       THEN MissingCredential("AZURE_OPENAI_ENDPOINT")
       ELSE NoError

\* getConfig(cliConfig, suppressErrors) on a file read as `config`
getConfig(config, cliConfig, suppressErrors) ==
    LET parsed == ParseLoop(1, config, cliConfig, suppressErrors, EmptyObject) IN
    IF ~parsed.ok THEN parsed
    ELSE LET e == CredentialCheck(parsed.config, suppressErrors) IN
         IF e # NoError THEN [ok |-> FALSE, err |-> e, config |-> EmptyObject]
         ELSE parsed

UnknownProperty(key) == [kind |-> "UnknownProperty", name |-> key, message |-> ""]

\* lines 233-240: the loop over keyValues, from pair i on; done counts the
\* pairs already applied to the in-memory config
RECURSIVE SetLoop(_, _, _)
SetLoop(i, keyValues, config) ==
    IF i > Len(keyValues)
    THEN [ok |-> TRUE, err |-> NoError, config |-> config, done |-> i - 1]
    ELSE LET key == keyValues[i][1]
             value == keyValues[i][2]
         IN IF key \notin RecognizedKeys
            THEN [ok |-> FALSE, err |-> UnknownProperty(key), config |-> config,
                  done |-> i - 1]
            ELSE LET parsed == combinedParsers(key, Str(value)) IN
                 IF ~parsed.ok
                 THEN [ok |-> FALSE, err |-> parsed.err, config |-> config,
                       done |-> i - 1]
                 ELSE SetLoop(i + 1, keyValues, Assign(config, key, parsed.val))

\* the write moved into a finally block: the pairs applied before a throw are saved
WriteAfter_AlsoOnThrow(r, exists, lines) ==
    [exists |-> TRUE, lines |-> IniStringify(r.config)]

\* line 242: the file after the loop ended as `r`; a throw skips the write
WriteAfter(r, exists, lines) ==
    IF r.ok THEN [exists |-> TRUE, lines |-> IniStringify(r.config)]
    ELSE [exists |-> exists, lines |-> lines]

-----------------------------------------------------------------------------
(* The inputs the configuration store is run on                            *)

SkA == <<"s","k","-","a">>
Abc == <<"a","b","c">>
One == <<"1">>
Ten == <<"1","0">>
T20000 == <<"2","0","0","0","0">>
UpperTrue == <<"T","R","U","E">>
LowerTrue == <<"t","r","u","e">>
NullText == <<"n","u","l","l">>
KeyK == <<"k">>
UrlX == <<"h","t","t","p",":","/","/","x">>
UrlQ == <<"h","t","t","p",":","/","/","x","?","v","=","1">>
\* a model name with two backslashes before a semicolon
ModelBs == <<"m", "\\", "\\", ";", "x">>

\* the key=value pairs `config set` is called with
SetPairs == {
    <<"OPENAI_KEY", SkA>>, <<"OPENAI_KEY", Abc>>, <<"UNKNOWN", One>>,
    <<"timeout", T20000>>, <<"USE_AZURE", UpperTrue>>, <<"proxy", <<>>>>,
    <<"model", NullText>>, <<"model", ModelBs>>,
    <<"AZURE_OPENAI_ENDPOINT", UrlQ>> }

MaxKeyValues == 2

KeyValueLists == UNION {[1..n -> SetPairs] : n \in 0..MaxKeyValues}

AllKeys == RecognizedKeys \cup {"UNKNOWN"}

\* the overrides the command line passes to getConfig
CliConfigs == {
    EmptyObject,
    [k \in {"OPENAI_KEY"} |-> Str(SkA)],
    [k \in {"OPENAI_KEY"} |-> Str(<<>>)],
    [k \in {"timeout"} |-> Str(Abc)],
    [k \in {"USE_AZURE"} |-> Str(LowerTrue)],
    [k \in {"USE_AZURE", "AZURE_OPENAI_KEY", "AZURE_OPENAI_ENDPOINT"} |->
        CASE k = "USE_AZURE" -> Str(LowerTrue)
          [] k = "AZURE_OPENAI_KEY" -> Str(KeyK)
          [] OTHER -> Str(UrlX)] }

\* the files found at the first invocation: none, files written by earlier
\* runs, and hand-edited files (an unknown key, an invalid value, quoting)
InitFiles == {
    [exists |-> FALSE, lines |-> [k \in {} |-> <<>>]],
    [exists |-> TRUE, lines |-> [k \in {"OPENAI_KEY", "UNKNOWN"} |->
        IF k = "OPENAI_KEY" THEN SkA ELSE One]],
    [exists |-> TRUE, lines |->
        [k \in {"USE_AZURE", "AZURE_OPENAI_KEY", "AZURE_OPENAI_ENDPOINT"} |->
            CASE k = "USE_AZURE" -> LowerTrue
              [] k = "AZURE_OPENAI_KEY" -> KeyK
              [] OTHER -> UrlX]],
    [exists |-> TRUE, lines |-> [k \in {"USE_AZURE", "AZURE_OPENAI_KEY"} |->
        IF k = "USE_AZURE" THEN LowerTrue ELSE KeyK]],
    [exists |-> TRUE, lines |->
        [k \in {"OPENAI_KEY", "max-length", "locale", "UNKNOWN"} |->
            CASE k = "OPENAI_KEY" -> SkA
              [] k = "max-length" -> Ten
              [] k = "locale" -> <<DQ, "e", "n", DQ>>
              [] OTHER -> <<" ", "1", " ", ";", "c">>]] }

Idle == [op |-> "none"]

-----------------------------------------------------------------------------
(* The configuration store: one invocation at a time                       *)

StoreIdleOthers == UNCHANGED <<procs, raceLog, net, gen>>

\* `aicommits config set k=v ...`: setConfigs(keyValues)
SetConfigs ==
    /\ res = Idle
    /\ \E keyValues \in KeyValueLists :
          LET config == readConfigFile(fileExists, fileLines)
              r == SetLoop(1, keyValues, config)
              w == WriteAfter(r, fileExists, fileLines)
          IN /\ fileExists' = w.exists
             /\ fileLines' = w.lines
             /\ res' = [op |-> "set", keyValues |-> keyValues, ok |-> r.ok,
                        err |-> r.err, done |-> r.done]
    /\ StoreIdleOthers

\* getConfig(cliConfig, suppressErrors)
GetConfig ==
    /\ res = Idle
    /\ \E cliConfig \in CliConfigs, suppressErrors \in BOOLEAN :
          LET r == getConfig(readConfigFile(fileExists, fileLines), cliConfig,
                             suppressErrors)
          IN res' = [op |-> "get", cliConfig |-> cliConfig,
                     suppressErrors |-> suppressErrors, ok |-> r.ok,
                     err |-> r.err, config |-> r.config]
    /\ UNCHANGED <<fileExists, fileLines>>
    /\ StoreIdleOthers

\* the invocation returns to its caller
Return ==
    /\ res # Idle
    /\ res' = Idle
    /\ UNCHANGED <<fileExists, fileLines>>
    /\ StoreIdleOthers

NoProcs == <<>>
NoNet == [phase |-> "unused"]
NoGen == [phase |-> "unused"]

Init ==
    /\ \E f \in InitFiles : fileExists = f.exists /\ fileLines = f.lines
    /\ res = Idle
    /\ procs = NoProcs
    /\ raceLog = <<>>
    /\ net = NoNet
    /\ gen = NoGen

Next == SetConfigs \/ GetConfig \/ Return

Spec == Init /\ [][Next]_vars

-----------------------------------------------------------------------------
(* Properties of the configuration store                                   *)

\* a pair setConfigs refuses: an unrecognized key, or a value its parser rejects
BadPair(p) == p[1] \notin RecognizedKeys \/ ~combinedParsers(p[1], Str(p[2])).ok

FirstBad(keyValues) ==
    CHOOSE i \in 1..Len(keyValues) :
        BadPair(keyValues[i]) /\ \A j \in 1..(i - 1) : ~BadPair(keyValues[j])

\* the error the claim names for a refused pair
ExpectedSetError(p) ==
    IF p[1] \notin RecognizedKeys THEN UnknownProperty(p[1])
    ELSE combinedParsers(p[1], Str(p[2])).err

SetStep == res.op = "none" /\ res'.op = "set"

NamedKeys(keyValues) == {keyValues[i][1] : i \in 1..Len(keyValues)}

\* C1: a setConfigs call with a refused pair anywhere in its list fails with
\* the error of the first refused pair (unknown key: "Invalid config
\* property: <key>", invalid value: "Invalid config property <key>: <rule>")
\* and leaves the file exactly as it was, whatever pairs came before it.
C1_SetAllOrNothing ==
    [][SetStep =>
         LET keyValues == res'.keyValues IN
         /\ (\E i \in 1..Len(keyValues) : BadPair(keyValues[i])) <=> ~res'.ok
         /\ ~res'.ok =>
              /\ fileExists' = fileExists
              /\ fileLines' = fileLines
              /\ res'.err = ExpectedSetError(keyValues[FirstBad(keyValues)])
              /\ res'.err.kind \in {"UnknownProperty", "InvalidProperty"}]_vars

\* C1 witness: a call failed on an unknown key after a valid pair, on a file
\* that exists.
C1_Witness ==
    /\ res.op = "set" /\ ~res.ok /\ res.done >= 1
    /\ res.err.kind = "UnknownProperty"
    /\ fileExists

\* what a suppressed read (the one `config get` does) returns on the file
ReadBack(suppressErrors) ==
    getConfig(readConfigFile(fileExists, fileLines), EmptyObject, suppressErrors)

\* C2: after a successful setConfigs([[k, v]]), a getConfig without override
\* returns for k the validated form of v, and k's stored value is not what
\* makes a read fail.
C2_SetGetRoundTrip ==
    (res.op = "set" /\ res.ok /\ Len(res.keyValues) = 1) =>
        LET k == res.keyValues[1][1]
            validated == combinedParsers(k, Str(res.keyValues[1][2])).val
        IN /\ Lookup(ReadBack(TRUE).config, k) = validated
           /\ ~(ReadBack(FALSE).err.kind \in {"InvalidProperty", "TypeError"}
                /\ ReadBack(FALSE).err.name = k)

\* the documented defaults
DocumentedDefaults ==
    [k \in RecognizedKeys |->
        CASE k = "OPENAI_KEY" -> Str(<<>>)
          [] k = "locale" -> Str(<<"e","n">>)
          [] k = "generate" -> Num(1)
          [] k = "type" -> Str(<<>>)
          [] k = "proxy" -> Undefined
          [] k = "model" -> Str(<<"g","p","t","-","3",".","5","-","t","u","r","b","o">>)
          [] k = "timeout" -> Num(10000)
          [] k = "max-length" -> Num(50)
          [] k = "USE_AZURE" -> Bool(FALSE)
          [] k = "AZURE_OPENAI_KEY" -> Str(<<>>)
          [] k = "AZURE_OPENAI_ENDPOINT" -> Str(<<>>)]

DefaultCall == res.op = "get" /\ ~fileExists /\ res.cliConfig = EmptyObject

\* C3 as stated: the non-suppressed call with no file and no overrides
\* returns the documented defaults.
C3_DefaultsNotSuppressed ==
    (DefaultCall /\ ~res.suppressErrors) =>
        (res.ok /\ res.config = DocumentedDefaults)

\* C3 amended: with no file and no overrides the suppressed call returns the
\* documented default of every key, and the non-suppressed call fails with
\* the missing-credential error for OPENAI_KEY.
C3_DefaultsWhenSuppressed ==
    DefaultCall =>
        IF res.suppressErrors
        THEN res.ok /\ res.config = DocumentedDefaults
        ELSE ~res.ok /\ res.err = MissingCredential("OPENAI_KEY")

\* C3 witness: a suppressed default call on a missing file.
C3_Witness == DefaultCall /\ res.suppressErrors /\ res.ok

\* the value getConfig resolves for a key: override first, then the file
Resolved(key) ==
    Coalesce(Lookup(res.cliConfig, key),
             Lookup(readConfigFile(fileExists, fileLines), key))

AllResolvedValid == \A key \in RecognizedKeys : combinedParsers(key, Resolved(key)).ok

Validated(key) == combinedParsers(key, Resolved(key)).val

NonEmpty(v) == v.t = "string" /\ v.s # <<>>

\* the credential rule on a mapping of validated values
CredentialRule(c) ==
    \/ c["USE_AZURE"] = Bool(FALSE) /\ NonEmpty(c["OPENAI_KEY"])
    \/ /\ c["USE_AZURE"] = Bool(TRUE)
       /\ NonEmpty(c["AZURE_OPENAI_KEY"])
       /\ NonEmpty(c["AZURE_OPENAI_ENDPOINT"])

\* C4 as stated: a non-suppressed getConfig returns a config only if the
\* credential rule holds of it, and otherwise fails with the
\* missing-credential error.
C4_FailsOnlyWithMissingCredential ==
    (res.op = "get" /\ ~res.suppressErrors) =>
        /\ res.ok => (DOMAIN res.config = RecognizedKeys /\ CredentialRule(res.config))
        /\ ~res.ok => res.err.kind = "MissingCredential"

\* C4 amended: a non-suppressed getConfig returns a config only if the
\* credential rule holds of it; when every resolved value is valid it
\* succeeds exactly when the rule holds, and fails otherwise with the
\* missing-credential error, which names the gateway key first in gateway
\* mode; a resolved value its parser rejects fails the call first.
C4_CredentialInvariant ==
    (res.op = "get" /\ ~res.suppressErrors) =>
        /\ res.ok => (DOMAIN res.config = RecognizedKeys /\ CredentialRule(res.config))
        /\ AllResolvedValid =>
             LET c == [k \in RecognizedKeys |-> Validated(k)] IN
             IF CredentialRule(c) THEN res.ok /\ res.config = c
             ELSE /\ ~res.ok
                  /\ res.err =
                       IF c["USE_AZURE"] = Bool(FALSE)
                       THEN MissingCredential("OPENAI_KEY")
                       ELSE IF ~NonEmpty(c["AZURE_OPENAI_KEY"])
                       THEN MissingCredential("AZURE_OPENAI_KEY")
                       ELSE MissingCredential("AZURE_OPENAI_ENDPOINT")
        /\ ~AllResolvedValid =>
             (~res.ok /\ res.err.kind \in {"InvalidProperty", "TypeError"})

\* C4 witness: a non-suppressed read succeeded in gateway mode with an empty
\* direct API key.
C4_Witness ==
    /\ res.op = "get" /\ ~res.suppressErrors /\ res.ok
    /\ res.config["USE_AZURE"] = Bool(TRUE)
    /\ res.config["OPENAI_KEY"] = Str(<<>>)

\* C5: a successful setConfigs leaves every key it was not called with,
\* recognized or not, in the file with the value it had.
C5_SetFrame ==
    [][(SetStep /\ res'.ok) =>
         \A k \in AllKeys \ NamedKeys(res'.keyValues) :
            /\ (k \in DOMAIN fileLines') <=> (k \in DOMAIN fileLines)
            /\ k \in DOMAIN fileLines =>
                 IniDecodeValue(fileLines'[k]) = IniDecodeValue(fileLines[k])]_vars

\* C6: a suppressed getConfig never fails; a recognized key is in the result
\* exactly when its parser accepts the resolved value, and then holds the
\* parser's result; no unrecognized key is in the result.
C6_Suppressed ==
    (res.op = "get" /\ res.suppressErrors) =>
        /\ res.ok
        /\ DOMAIN res.config \subseteq RecognizedKeys
        /\ \A key \in RecognizedKeys :
             IF combinedParsers(key, Resolved(key)).ok
             THEN key \in DOMAIN res.config /\ res.config[key] = Validated(key)
             ELSE key \notin DOMAIN res.config

\* C6 witness: a suppressed read of a file with an unrecognized key and a
\* rejected max-length, which is left out of the result.
C6_Witness ==
    /\ res.op = "get" /\ res.suppressErrors
    /\ "UNKNOWN" \in DOMAIN fileLines
    /\ ~combinedParsers("max-length", Resolved("max-length")).ok
    /\ "max-length" \notin DOMAIN res.config

-----------------------------------------------------------------------------
(* Two `config set` processes on one file.  setConfigs awaits fileExists,  *)
(* then fs.readFile, runs its loop without suspending, and awaits          *)
(* fs.writeFile: three steps, between which the other process may run.     *)

Procs == {1, 2}
Other(p) == CHOOSE q \in Procs : q # p

\* what each of the two processes is called with
RaceLists == {
    << <<"OPENAI_KEY", SkA>> >>, << <<"timeout", T20000>> >>,
    << <<"USE_AZURE", UpperTrue>> >>, << <<"timeout", T20000>>, <<"locale", <<"d","e">>>> >>,
    << <<"OPENAI_KEY", Abc>> >> }

RaceInitFiles == {
    [exists |-> FALSE, lines |-> [k \in {} |-> <<>>]],
    [exists |-> TRUE, lines |-> [k \in {"model", "UNKNOWN"} |->
        IF k = "model" THEN <<"m">> ELSE One]] }

\* the write moved under a lock with a fresh read: the text written is the
\* file as it is now plus the process's own pairs
WriteText_FreshRead(p) ==
    IniStringify(SetLoop(1, procs[p].keyValues,
                         readConfigFile(fileExists, fileLines)).config)

\* line 242: ini.stringify(config) of the config the process read and updated
WriteText(p) ==
    IniStringify(SetLoop(1, procs[p].keyValues, procs[p].config).config)

\* line 170: await fileExists(configPath)
RaceCheck(p) ==
    /\ procs[p].pc = "start"
    /\ procs' = [procs EXCEPT ![p].pc = "checked", ![p].exists = fileExists]
    /\ raceLog' = [raceLog EXCEPT !.events = Append(@, <<p, "check">>)]
    /\ UNCHANGED <<fileExists, fileLines, res, net, gen>>

\* lines 171-176 and 233-240: the read (skipped when the file was not there)
\* and the loop; a refused pair throws and the process ends without writing
RaceRead(p) ==
    /\ procs[p].pc = "checked"
    /\ LET config == readConfigFile(procs[p].exists, fileLines)
           r == SetLoop(1, procs[p].keyValues, config)
       IN procs' = [procs EXCEPT ![p].pc = IF r.ok THEN "read" ELSE "failed",
                                 ![p].config = config]
    /\ raceLog' = [raceLog EXCEPT !.events = Append(@, <<p, "read">>)]
    /\ UNCHANGED <<fileExists, fileLines, res, net, gen>>

\* line 242: await fs.writeFile(configPath, ...)
RaceWrite(p) ==
    /\ procs[p].pc = "read"
    /\ fileExists' = TRUE
    /\ fileLines' = WriteText(p)
    /\ procs' = [procs EXCEPT ![p].pc = "done"]
    /\ raceLog' = [raceLog EXCEPT !.events = Append(@, <<p, "write">>)]
    /\ UNCHANGED <<res, net, gen>>

RaceInit ==
    /\ \E f \in RaceInitFiles :
          /\ fileExists = f.exists
          /\ fileLines = f.lines
          /\ raceLog = [init |-> f, events |-> <<>>]
    /\ \E l1 \in RaceLists, l2 \in RaceLists :
          procs = [p \in Procs |->
                     [pc |-> "start", keyValues |-> IF p = 1 THEN l1 ELSE l2,
                      exists |-> FALSE, config |-> EmptyObject]]
    /\ res = Idle
    /\ net = NoNet
    /\ gen = NoGen

RaceNext == \E p \in Procs : RaceCheck(p) \/ RaceRead(p) \/ RaceWrite(p)

RaceSpec == RaceInit /\ [][RaceNext]_vars

\* the position of an event in the log (0: it did not happen)
At(p, what) ==
    IF \E i \in 1..Len(raceLog.events) : raceLog.events[i] = <<p, what>>
    THEN CHOOSE i \in 1..Len(raceLog.events) : raceLog.events[i] = <<p, what>>
    ELSE 0

BothWrote == \A p \in Procs : procs[p].pc = "done"

LastWriter == CHOOSE p \in Procs : At(p, "write") > At(Other(p), "write")

\* both processes took their snapshot before either wrote
Overlapped == \A p, q \in Procs : At(p, "read") < At(q, "write")

\* one process wrote before the other began
Sequential == At(Other(LastWriter), "write") < At(LastWriter, "check")

FileValue(k) == Lookup(readConfigFile(fileExists, fileLines), k)
InitValue(k) == Lookup(readConfigFile(raceLog.init.exists, raceLog.init.lines), k)
SetValue(p, k) ==
    LET kv == procs[p].keyValues
        i == CHOOSE i \in 1..Len(kv) :
                kv[i][1] = k /\ \A j \in (i + 1)..Len(kv) : kv[j][1] # k
    IN combinedParsers(k, Str(kv[i][2])).val

\* the value ini reads back for a value setConfigs stored
Stored(v) == IniDecodeValue(IniSafe(v))

\* C10: when both invocations read before either writes, the file ends as
\* the last writer's snapshot plus its own pairs, and a key only the other
\* invocation set is back at its initial state; when one invocation ends
\* before the other begins, the keys of both hold the values set.
C10_LastWriterWins ==
    BothWrote =>
        LET w == LastWriter
            o == Other(w)
            mine == NamedKeys(procs[w].keyValues)
            theirs == NamedKeys(procs[o].keyValues) \ mine
        IN /\ \A k \in mine : FileValue(k) = Stored(SetValue(w, k))
           /\ Overlapped =>
                /\ procs[w].config = readConfigFile(raceLog.init.exists, raceLog.init.lines)
                /\ \A k \in AllKeys \ mine : FileValue(k) = InitValue(k)
           /\ Sequential =>
                \A k \in theirs : FileValue(k) = Stored(SetValue(o, k))

\* C10 witness: two overlapping invocations set different keys, and the key
\* the first writer set is missing from the final file.
C10_Witness ==
    /\ BothWrote /\ Overlapped
    /\ \E k \in NamedKeys(procs[Other(LastWriter)].keyValues) :
          /\ k \notin NamedKeys(procs[LastWriter].keyValues)
          /\ k \notin DOMAIN fileLines

-----------------------------------------------------------------------------
(* The completion client.  The response body is modelled by the sequence   *)
(* of the choices its JSON holds, one choice per chunk received; a partial *)
(* body is a proper prefix of it.                                          *)

\* String.prototype.replace(/[\n\r]/g, '')
RECURSIVE RemoveLineBreaks(_)
RemoveLineBreaks(s) ==
    IF s = <<>> THEN <<>>
    ELSE (IF Head(s) \in {"\n", "\r"} THEN <<>> ELSE <<Head(s)>>)
         \o RemoveLineBreaks(Tail(s))

\* String.prototype.replace(/(\w)\.$/, '$1')
StripFinalPeriod(s) ==
    IF Len(s) >= 2 /\ s[Len(s)] = "." /\ s[Len(s) - 1] \in WordChars
    THEN SubSeq(s, 1, Len(s) - 1)
    ELSE s

\* sanitizeMessage
sanitizeMessage(message) == StripFinalPeriod(RemoveLineBreaks(Trim(message)))

Contains(seq, x) == \E i \in 1..Len(seq) : seq[i] = x

\* a Set that keeps the last of equal strings instead of the first
RECURSIVE deduplicateMessages_KeepLast(_)
deduplicateMessages_KeepLast(array) ==
    IF array = <<>> THEN <<>>
    ELSE IF Contains(Tail(array), Head(array))
    THEN deduplicateMessages_KeepLast(Tail(array))
    ELSE <<Head(array)>> \o deduplicateMessages_KeepLast(Tail(array))

\* Array.from(new Set(array)): insertion order, first occurrence kept
RECURSIVE DedupeFrom(_, _)
DedupeFrom(array, seen) ==
    IF array = <<>> THEN seen
    ELSE DedupeFrom(Tail(array),
                    IF Contains(seen, Head(array)) THEN seen
                    ELSE Append(seen, Head(array)))

\* deduplicateMessages
deduplicateMessages(array) == DedupeFrom(array, <<>>)

\* choice.message?.content is truthy
HasContent(choice) == ~Falsy(choice.content)

\* lines 407-411: filter, map, deduplicate
Candidates(choices) ==
    LET kept == SelectSeq(choices, HasContent)
    IN deduplicateMessages([i \in 1..Len(kept) |-> sanitizeMessage(kept[i].content.s)])

\* the errors of the client
TimeoutError(timeout) == [type |-> "KnownError", what |-> "timeout", timeout |-> timeout]
HostError(hostname, syscall) ==
    [type |-> "KnownError", what |-> "connect", hostname |-> hostname, syscall |-> syscall]
ApiError(statusCode, statusMessage, data, advice) ==
    [type |-> "KnownError", what |-> "api", statusCode |-> statusCode,
     statusMessage |-> statusMessage, data |-> data, advice |-> advice]
SyntaxError == [type |-> "SyntaxError", code |-> ""]
\* an error of the transport, as Node raises it on the request
TransportError(code) ==
    [type |-> "Error", code |-> code, hostname |-> "api.openai.com",
     syscall |-> IF code = "ENOTFOUND" THEN "getaddrinfo" ELSE "connect"]
TransportErrors == {TransportError("ENOTFOUND"), TransportError("ECONNREFUSED")}
SocketHangUp == TransportError("ECONNRESET")

Returned(messages) == [kind |-> "messages", messages |-> messages]
Thrown(err) == [kind |-> "error", err |-> err]

\* the status-page advice added for every server error, not only for 500
createChatCompletion_AdviceOnAny5xx(response, data) ==
    IF response.statusCode = 0 \/ response.statusCode < 200 \/ response.statusCode > 299
    THEN Thrown(ApiError(response.statusCode, response.statusMessage, data,
                         response.statusCode >= 500))
    ELSE IF data = <<>> THEN Thrown(SyntaxError)
    ELSE [kind |-> "completion", choices |-> data]

\* lines 328-346: the status check and JSON.parse(data); a missing status
\* code is 0, and an empty body is not JSON
createChatCompletion(response, data) ==
    IF response.statusCode = 0 \/ response.statusCode < 200 \/ response.statusCode > 299
    THEN Thrown(ApiError(response.statusCode, response.statusMessage, data,
                         response.statusCode = 500))
    ELSE IF data = <<>> THEN Thrown(SyntaxError)
    ELSE [kind |-> "completion", choices |-> data]

\* lines 412-421: the catch of generateCommitMessage
Catch(error) ==
    IF "code" \in DOMAIN error /\ error.code = "ENOTFOUND"
    THEN Thrown(HostError(error.hostname, error.syscall))
    ELSE Thrown(error)

\* generateCommitMessage once the promise of httpsPost has settled
generateCommitMessage(promise) ==
    IF promise.state = "rejected" THEN Catch(promise.err)
    ELSE LET completion == createChatCompletion(promise.response, promise.data) IN
         IF completion.kind = "error" THEN Catch(completion.err)
         ELSE Returned(Candidates(completion.choices))

\* resolve and reject of a promise: the first call settles it, later calls
\* do nothing
Resolve(promise, response, data) ==
    IF promise.state = "pending"
    THEN [state |-> "resolved", response |-> response, data |-> data]
    ELSE promise
Reject(promise, err) ==
    IF promise.state = "pending" THEN [state |-> "rejected", err |-> err] ELSE promise

-----------------------------------------------------------------------------
(* The inputs of the client                                                *)

Content(s) == [content |-> Str(s)]
\* a choice without message
NoMessage == [content |-> Undefined]

ChoiceSet == {
    NoMessage, Content(<<>>),
    Content(<<"a","b">>), Content(<<"a","b",".">>),
    Content(<<" ","a","\n","b",".","\r","\n">>),
    Content(<<"a",")",".">>), Content(<<"a",".",".">>) }

MaxChoices == 3

Payloads == UNION {[1..n -> ChoiceSet] : n \in 0..MaxChoices}

\* 0: the response has no status code
StatusCodes == {0, 199, 200, 299, 300, 500, 503}
StatusMessage(code) ==
    CASE code = 200 -> "OK"
      [] code = 500 -> "Internal Server Error"
      [] OTHER -> "Other"

Timeouts == {MinTimeout, DefaultTimeout}

-----------------------------------------------------------------------------
(* httpsPost: the events of the request and of the response, as Node       *)
(* raises them, and the listeners lines 282-302 register                   *)

ClientOthers == UNCHANGED <<fileExists, fileLines, res, procs, raceLog>>

Response == [statusCode |-> net.statusCode, statusMessage |-> StatusMessage(net.statusCode)]

\* the response callback (line 282): the headers arrived, the data and end
\* listeners are registered
NetResponse ==
    /\ net.conn = "open" /\ ~net.headers
    /\ net' = [net EXCEPT !.headers = TRUE]
    /\ UNCHANGED gen /\ ClientOthers

\* response 'data' (line 284)
NetData ==
    /\ net.conn = "open" /\ net.headers /\ Len(net.body) < Len(net.payload)
    /\ net' = [net EXCEPT !.body = Append(@, net.payload[Len(net.body) + 1])]
    /\ UNCHANGED gen /\ ClientOthers

\* response 'end' (lines 285-291), raised once the whole body was received
NetEnd ==
    /\ net.conn = "open" /\ net.headers /\ Len(net.body) = Len(net.payload)
    /\ net' = [net EXCEPT !.conn = "ended",
                          !.promise = Resolve(@, Response, net.body)]
    /\ UNCHANGED gen /\ ClientOthers

\* request 'error' (line 294): the connection failed, or the socket failed
\* later; the host is resolved before any response
NetError ==
    /\ net.conn = "open"
    /\ \E e \in TransportErrors :
          /\ e.code = "ENOTFOUND" => ~net.headers
          /\ net' = [net EXCEPT !.conn = "errored", !.promise = Reject(@, e)]
    /\ UNCHANGED gen /\ ClientOthers

\* request 'timeout' (lines 295-302): request.destroy(), then reject; Node
\* raises the 'error' of a request destroyed before its response later
NetTimeout ==
    /\ net.conn = "open"
    /\ net' = [net EXCEPT !.conn = "destroyed",
                          !.teardown = ~net.headers,
                          !.timedOut = TRUE,
                          !.promise = Reject(@, TimeoutError(gen.timeout))]
    /\ UNCHANGED gen /\ ClientOthers

\* request 'error' (line 294) with the socket hang up of the teardown
NetTeardownError ==
    /\ net.teardown
    /\ net' = [net EXCEPT !.teardown = FALSE, !.promise = Reject(@, SocketHangUp)]
    /\ UNCHANGED gen /\ ClientOthers

\* the connection closes after the headers and before the body ended: Node
\* raises 'aborted', 'error' and 'close' on the response and 'close' on the
\* request, none of which has a listener, and never raises 'end'
NetAborted ==
    /\ net.conn = "open" /\ net.headers /\ Len(net.body) < Len(net.payload)
    /\ net' = [net EXCEPT !.conn = "aborted"]
    /\ UNCHANGED gen /\ ClientOthers

\* the await of line 320 resumes generateCommitMessage
Resume ==
    /\ gen.phase = "calling" /\ net.promise.state # "pending"
    /\ gen' = [gen EXCEPT !.phase = "done",
                          !.outcome = generateCommitMessage(net.promise)]
    /\ UNCHANGED net /\ ClientOthers

ClientInit ==
    /\ \E payload \in Payloads, statusCode \in StatusCodes :
          net = [phase |-> "http", conn |-> "open", headers |-> FALSE,
                 statusCode |-> statusCode, payload |-> payload, body |-> <<>>,
                 teardown |-> FALSE, timedOut |-> FALSE,
                 promise |-> [state |-> "pending"]]
    /\ \E timeout \in Timeouts :
          gen = [phase |-> "calling", timeout |-> timeout, outcome |-> [kind |-> "none"]]
    /\ fileExists = FALSE
    /\ fileLines = <<>>
    /\ res = Idle
    /\ procs = NoProcs
    /\ raceLog = <<>>

ClientNext ==
    \/ NetResponse \/ NetData \/ NetEnd \/ NetError
    \/ NetTimeout \/ NetTeardownError \/ NetAborted \/ Resume

ClientSpec == ClientInit /\ [][ClientNext]_vars

-----------------------------------------------------------------------------
(* Properties of the completion client                                     *)

Done == gen.phase = "done"

SuccessStatus(code) == code >= 200 /\ code <= 299

\* C7: a timeout fails with the timeout error carrying the configured
\* timeout; a transport error ENOTFOUND fails with the cannot-reach-host
\* error naming host and syscall; any other transport error is thrown as it
\* is; a complete response whose status is missing or outside [200,299]
\* fails with the API error carrying status, status text and body, with the
\* status-page advice exactly for status 500; only a complete response with
\* a status in [200,299] yields a list.
C7_OutcomeClassification ==
    Done =>
        /\ net.timedOut => gen.outcome = Thrown(TimeoutError(gen.timeout))
        /\ net.conn = "errored" =>
             /\ net.promise.state = "rejected"
             /\ net.promise.err \in TransportErrors
             /\ gen.outcome =
                  IF net.promise.err.code = "ENOTFOUND"
                  THEN Thrown([type |-> "KnownError", what |-> "connect",
                               hostname |-> net.promise.err.hostname,
                               syscall |-> net.promise.err.syscall])
                  ELSE Thrown(net.promise.err)
        /\ (net.conn = "ended" /\ ~SuccessStatus(net.statusCode)) =>
             gen.outcome =
                Thrown([type |-> "KnownError", what |-> "api",
                        statusCode |-> net.statusCode,
                        statusMessage |-> StatusMessage(net.statusCode),
                        data |-> net.payload,
                        advice |-> (net.statusCode = 500)])
        /\ gen.outcome.kind = "messages" =>
             (net.conn = "ended" /\ SuccessStatus(net.statusCode))

\* C7 witness: a complete response with status 500 and a body ended in the
\* API error with the advice.
C7_Witness ==
    /\ Done /\ net.conn = "ended" /\ net.statusCode = 500 /\ net.payload # <<>>
    /\ gen.outcome.kind = "error" /\ gen.outcome.err.what = "api"
    /\ gen.outcome.err.advice

\* a text trimmed and without line breaks
Flattened(text) == SelectSeq(Trim(text), LAMBDA ch : ch \notin {"\n", "\r"})

\* the sanitization as the spec words it: the trailing period always goes
PeriodAlwaysRemoved(text) ==
    LET t == Flattened(text) IN
    IF t # <<>> /\ t[Len(t)] = "." THEN SubSeq(t, 1, Len(t) - 1) ELSE t

\* the sanitization with the period removed only after a word character
PeriodRemovedAfterWord(text) ==
    LET t == Flattened(text) IN
    IF Len(t) >= 2 /\ t[Len(t)] = "." /\ t[Len(t) - 1] \in WordChars
    THEN SubSeq(t, 1, Len(t) - 1)
    ELSE t

FirstIndex(seq, x) == CHOOSE i \in 1..Len(seq) : seq[i] = x /\ \A j \in 1..(i - 1) : seq[j] # x

\* the returned list is the texts of the choices with content, sanitized by
\* Sanitized, without repetition, in the order of their first occurrence
CandidatesAre(Sanitized(_)) ==
    LET kept == SelectSeq(net.payload, LAMBDA c : c.content.t = "string" /\ c.content.s # <<>>)
        texts == [i \in 1..Len(kept) |-> Sanitized(kept[i].content.s)]
        r == gen.outcome.messages
    IN /\ \A i, j \in 1..Len(r) : i # j => r[i] # r[j]
       /\ {r[i] : i \in 1..Len(r)} = {texts[i] : i \in 1..Len(texts)}
       /\ \A i, j \in 1..Len(r) : i < j => FirstIndex(texts, r[i]) < FirstIndex(texts, r[j])

\* C8 as stated: every text has its trailing period removed if present.
C8_PeriodAlwaysRemoved ==
    (Done /\ gen.outcome.kind = "messages") => CandidatesAre(PeriodAlwaysRemoved)

\* C8 amended: the candidates are the choices with non-empty content, in
\* response order, each trimmed, without line breaks, and without its
\* trailing period when a word character precedes it; equal texts are kept
\* once, at their first position.
C8_Candidates ==
    (Done /\ gen.outcome.kind = "messages") => CandidatesAre(PeriodRemovedAfterWord)

\* C8 witness: two choices with different raw texts gave one candidate.
C8_Witness ==
    /\ Done /\ gen.outcome.kind = "messages"
    /\ Len(gen.outcome.messages) = 1
    /\ Len(net.payload) = 2
    /\ \A i \in 1..2 : HasContent(net.payload[i])
    /\ net.payload[1] # net.payload[2]

\* C9: the promise of httpsPost is settled once no further event can come,
\* a settled promise never changes, a resolved promise holds the whole body,
\* and after a timeout the promise is rejected with the timeout error.
C9_SettlesExactlyOnce ==
    [][/\ (net'.conn # "open" /\ ~net'.teardown) => net'.promise.state # "pending"
       /\ net.promise.state # "pending" => net'.promise = net.promise
       /\ net'.promise.state = "resolved" => net'.promise.data = net'.payload
       /\ net'.timedOut =>
            net'.promise = [state |-> "rejected", err |-> TimeoutError(gen'.timeout)]]_vars

====
